---- MODULE Spec2Model ----
(***************************************************************************)
(* Model of stellar-core's LocalNode (src/scp/LocalNode.cpp): the quorum   *)
(* set algebra of SCP.  A quorum set (SCPQuorumSet) is a record            *)
(*   [threshold : Nat, validators : Seq(NodeID), innerSets : Seq(QSet)]    *)
(* NodeIDs are the integers 1..NumNodes (opaque, totally ordered keys).    *)
(*                                                                         *)
(* Fixed-width counters: TLC integers are 32-bit, so a uint32 / size_t     *)
(* value is kept as the representative of its residue class that lies      *)
(* closest to zero (2^w - 1 is written -1).  Every counter of this file    *)
(* moves by at most the size of a quorum set, so residues never collide,   *)
(* "== 0" is exact, and unsigned order is given by ULess below.            *)
(***************************************************************************)
EXTENDS Integers, Sequences, FiniteSets, TLC

VARIABLES
    mNodeID,        \* LocalNode::mNodeID
    mIsValidator,   \* LocalNode::mIsValidator
    mQSet,          \* LocalNode::mQSet
    mQSetHash,      \* LocalNode::mQSetHash
    pc,             \* position of the caller / of the running function
    qSet,           \* SCPQuorumSet argument of the running call
    nodeID,         \* NodeID argument of isQuorumSetSane
    nodeSet,        \* std::vector<NodeID> argument (isQuorumSlice, isVBlocking)
    nodes,          \* std::set<NodeID> argument (findClosestVBlocking)
    map,            \* std::map<NodeID, SCPEnvelope> argument (isQuorum)
    pNodes,         \* isQuorum: local vector pNodes
    count,          \* isQuorum: local count
    rounds,         \* isQuorum: number of do-while bodies executed so far
    ret             \* value returned by the call

vars == <<mNodeID, mIsValidator, mQSet, mQSetHash, pc, qSet, nodeID, nodeSet,
          nodes, map, pNodes, count, rounds, ret>>

(***************************************************************************)
(* Bounds of the model.                                                    *)
(***************************************************************************)
NumNodes == 3         \* NodeIDs
MaxEntries == 3       \* entries of an arbitrary input quorum set
MaxWFEntries == 5     \* entries of a well-formed input quorum set
MaxSetLen == 2        \* length of an input std::vector<NodeID>

Nodes == 1..NumNodes

(***************************************************************************)
(* Generic helpers over sequences and sets.                                *)
(***************************************************************************)
Range(s) == {s[k] : k \in 1..Len(s)}

SeqsOfLen(S, n) == [1..n -> S]

SeqsUpTo(S, n) == UNION {SeqsOfLen(S, k) : k \in 0..n}

RECURSIVE SetToSeq(_)
SetToSeq(S) ==
    IF S = {} THEN <<>>
    ELSE LET m == CHOOSE x \in S : \A y \in S : x <= y
         IN <<m>> \o SetToSeq(S \ {m})

\* v without its element at position k (std::vector::erase)
Erase(v, k) == [j \in 1..(Len(v) - 1) |-> IF j < k THEN v[j] ELSE v[j + 1]]

\* unsigned "a < b" on residue representatives (negative = wrapped, huge)
ULess(a, b) ==
    IF a >= 0 /\ b >= 0 THEN a < b
    ELSE IF a < 0 /\ b < 0 THEN a < b
    ELSE b < 0

(***************************************************************************)
(* SCPQuorumSet values.                                                    *)
(***************************************************************************)
QS(t, v, i) == [threshold |-> t, validators |-> v, innerSets |-> i]

\* LocalNode::buildSingletonQSet
buildSingletonQSet(n) == QS(1, <<n>>, <<>>)

\* Input quorum sets: every tree with exactly k entries (validators plus
\* inner sets, over the whole tree), thresholds from 0 to one past the
\* number of direct entries, validators in any order and with repetitions.
RECURSIVE TreesExact(_), InnerSeqsExact(_)
TreesExact(k) ==
    UNION {
        { QS(t, v, i) : t \in 0..(nv + Len(i) + 1), v \in SeqsOfLen(Nodes, nv) }
        : <<nv, i>> \in UNION {{<<n, s>> : s \in InnerSeqsExact(k - n)} : n \in 0..k}
    }
InnerSeqsExact(b) ==
    IF b = 0 THEN {<<>>}
    ELSE UNION {
            {<<t>> \o s : t \in TreesExact(e), s \in InnerSeqsExact(b - 1 - e)}
            : e \in 0..(b - 1)
         }

RawQSets == UNION {TreesExact(k) : k \in 0..MaxEntries}

\* the quorum sets handed to updateQuorumSet
ConfigQSets == UNION {TreesExact(k) : k \in 0..(MaxEntries - 1)}

\* input vectors of NodeIDs, repetitions included
NodeVectors == SeqsUpTo(Nodes, MaxSetLen)

(***************************************************************************)
(* LocalNode::isQuorumSetSaneInternal and LocalNode::isQuorumSetSane.      *)
(* The std::set knownNodes is threaded through the recursion; a call       *)
(* returns [ok, known] = its result and the set as it leaves it.           *)
(***************************************************************************)
\* for (auto const& n : v) { r = knownNodes.insert(n); if (!r.second) return false; }
RECURSIVE SaneValidators(_, _, _)
SaneValidators(v, k, knownNodes) ==
    IF k > Len(v) THEN [ok |-> TRUE, known |-> knownNodes]
    ELSE IF v[k] \in knownNodes THEN [ok |-> FALSE, known |-> knownNodes]
    ELSE SaneValidators(v, k + 1, knownNodes \cup {v[k]})

\* the range test of line 59
ThresholdInRange(q) ==
    q.threshold >= 1 /\ q.threshold <= Len(q.validators) + Len(q.innerSets)

RECURSIVE isQuorumSetSaneInternal(_, _, _), SaneInnerSets(_, _, _, _)
isQuorumSetSaneInternal(id, q, knownNodes) ==
    IF ThresholdInRange(q)
    THEN LET rv == SaneValidators(q.validators, 1, knownNodes)
         IN IF ~rv.ok THEN rv
            ELSE SaneInnerSets(id, q.innerSets, 1, rv.known)
    ELSE [ok |-> FALSE, known |-> knownNodes]
\* for (auto const& iSet : i) if (!isQuorumSetSaneInternal(...)) return false;
SaneInnerSets(id, i, k, knownNodes) ==
    IF k > Len(i) THEN [ok |-> TRUE, known |-> knownNodes]
    ELSE LET r == isQuorumSetSaneInternal(id, i[k], knownNodes)
         IN IF ~r.ok THEN r ELSE SaneInnerSets(id, i, k + 1, r.known)

isQuorumSetSane_NoSelfCheck(self, isValidator, id, q) ==
    isQuorumSetSaneInternal(id, q, {}).ok

isQuorumSetSane(self, isValidator, id, q) ==
    LET r == isQuorumSetSaneInternal(id, q, {})
    IN r.ok /\ (id \in r.known \/ (~isValidator /\ id = self))

(***************************************************************************)
(* LocalNode::adjustQSetHelper and LocalNode::adjustQSet.                  *)
(***************************************************************************)
\* "if (qSet.threshold) qSet.threshold--"
DecIfNonZero(t) == IF t /= 0 THEN t - 1 ELSE t

\* RemoveSelf with "itv = v.erase(itv)" followed by a stray "itv++"
RECURSIVE RemoveSelf_SkipsNext(_, _, _, _)
RemoveSelf_SkipsNext(self, v, k, t) ==
    IF k > Len(v) THEN [threshold |-> t, validators |-> v]
    ELSE IF v[k] = self
         THEN RemoveSelf_SkipsNext(self, Erase(v, k), k + 1, DecIfNonZero(t))
         ELSE RemoveSelf_SkipsNext(self, v, k + 1, t)

\* the loop of lines 121-136: erase every occurrence of self from v
RECURSIVE RemoveSelf(_, _, _, _)
RemoveSelf(self, v, k, t) ==
    IF k > Len(v) THEN [threshold |-> t, validators |-> v]
    ELSE IF v[k] = self THEN RemoveSelf(self, Erase(v, k), k, DecIfNonZero(t))
    ELSE RemoveSelf(self, v, k + 1, t)

Simplify_Never(q) == q

\* "simplify quorum set if needed", lines 139-143
Simplify(q) ==
    IF q.threshold = 1 /\ Len(q.validators) = 0 /\ Len(q.innerSets) = 1
    THEN q.innerSets[Len(q.innerSets)]
    ELSE q

RECURSIVE adjustQSetHelper(_, _), AdjustInnerSets(_, _, _, _)
\* the loop of lines 100-118: adjust every inner set in place, erase the
\* ones whose threshold became 0
AdjustInnerSets(self, i, k, t) ==
    IF k > Len(i) THEN [threshold |-> t, innerSets |-> i]
    ELSE LET a == adjustQSetHelper(self, i[k])
         IN IF a.threshold = 0
            THEN AdjustInnerSets(self, Erase(i, k), k, DecIfNonZero(t))
            ELSE AdjustInnerSets(self, [i EXCEPT ![k] = a], k + 1, t)
adjustQSetHelper(self, q) ==
    LET ri == AdjustInnerSets(self, q.innerSets, 1, q.threshold)
        rv == RemoveSelf(self, q.validators, 1, ri.threshold)
    IN Simplify(QS(rv.threshold, rv.validators, ri.innerSets))

adjustQSet(self, q) ==
    LET aQSet == adjustQSetHelper(self, q)
    IN IF aQSet.threshold /= 0
       THEN QS(2, <<self>>, <<aQSet>>)
       ELSE QS(1, <<self>>, <<>>)

\* sha256(xdr::xdr_to_opaque(q)): a digest that tells quorum sets apart
sha256(q) == <<"sha256", q>>

(***************************************************************************)
(* LocalNode::isQuorumSliceInternal / isQuorumSlice.                       *)
(***************************************************************************)
\* std::find(nodeSet.begin(), nodeSet.end(), validator) != nodeSet.end()
InVector_FirstOnly(nodeSet_, validator) ==
    Len(nodeSet_) > 0 /\ nodeSet_[1] = validator

InVector(nodeSet_, validator) ==
    \E k \in 1..Len(nodeSet_) : nodeSet_[k] = validator

\* the loop of lines 274-285; thresholdLeft is a uint32, so "<= 0" is "== 0"
\* and a decrement of 0 wraps.  Returns [done, left].
RECURSIVE SliceValidators(_, _, _, _)
SliceValidators(v, k, nodeSet_, thresholdLeft) ==
    IF k > Len(v) THEN [done |-> FALSE, left |-> thresholdLeft]
    ELSE IF InVector(nodeSet_, v[k])
         THEN IF thresholdLeft - 1 = 0
              THEN [done |-> TRUE, left |-> 0]
              ELSE SliceValidators(v, k + 1, nodeSet_, thresholdLeft - 1)
         ELSE SliceValidators(v, k + 1, nodeSet_, thresholdLeft)

RECURSIVE isQuorumSliceInternal(_, _), SliceInnerSets(_, _, _, _)
isQuorumSliceInternal(qset, nodeSet_) ==
    LET rv == SliceValidators(qset.validators, 1, nodeSet_, qset.threshold)
    IN IF rv.done THEN TRUE
       ELSE SliceInnerSets(qset.innerSets, 1, nodeSet_, rv.left)
\* the loop of lines 287-297
SliceInnerSets(i, k, nodeSet_, thresholdLeft) ==
    IF k > Len(i) THEN FALSE
    ELSE IF isQuorumSliceInternal(i[k], nodeSet_)
         THEN IF thresholdLeft - 1 = 0
              THEN TRUE
              ELSE SliceInnerSets(i, k + 1, nodeSet_, thresholdLeft - 1)
         ELSE SliceInnerSets(i, k + 1, nodeSet_, thresholdLeft)

isQuorumSlice(q, nodeSet_) == isQuorumSliceInternal(q, nodeSet_)

(***************************************************************************)
(* LocalNode::isVBlockingInternal / isVBlocking.                           *)
(***************************************************************************)
LeftTillBlock_NoPlusOne(qset) ==
    (Len(qset.validators) + Len(qset.innerSets)) - qset.threshold

\* (int)((1 + validators.size() + innerSets.size()) - threshold)
LeftTillBlock(qset) ==
    (1 + Len(qset.validators) + Len(qset.innerSets)) - qset.threshold

\* the loop of lines 326-337; leftTillBlock is an int.  Returns [done, left].
RECURSIVE VBlockingValidators(_, _, _, _)
VBlockingValidators(v, k, nodeSet_, leftTillBlock) ==
    IF k > Len(v) THEN [done |-> FALSE, left |-> leftTillBlock]
    ELSE IF InVector(nodeSet_, v[k])
         THEN IF leftTillBlock - 1 <= 0
              THEN [done |-> TRUE, left |-> leftTillBlock - 1]
              ELSE VBlockingValidators(v, k + 1, nodeSet_, leftTillBlock - 1)
         ELSE VBlockingValidators(v, k + 1, nodeSet_, leftTillBlock)

RECURSIVE isVBlockingInternal(_, _), VBlockingInnerSets(_, _, _, _)
isVBlockingInternal(qset, nodeSet_) ==
    IF qset.threshold = 0 THEN FALSE
    ELSE LET rv == VBlockingValidators(qset.validators, 1, nodeSet_,
                                       LeftTillBlock(qset))
         IN IF rv.done THEN TRUE
            ELSE VBlockingInnerSets(qset.innerSets, 1, nodeSet_, rv.left)
\* the loop of lines 338-348
VBlockingInnerSets(i, k, nodeSet_, leftTillBlock) ==
    IF k > Len(i) THEN FALSE
    ELSE IF isVBlockingInternal(i[k], nodeSet_)
         THEN IF leftTillBlock - 1 <= 0
              THEN TRUE
              ELSE VBlockingInnerSets(i, k + 1, nodeSet_, leftTillBlock - 1)
         ELSE VBlockingInnerSets(i, k + 1, nodeSet_, leftTillBlock)

isVBlocking(q, nodeSet_) == isVBlockingInternal(q, nodeSet_)

(***************************************************************************)
(* LocalNode::findClosestVBlocking(qset, std::set<NodeID>).                *)
(***************************************************************************)
\* size_t leftTillBlock = (1 + validators.size() + innerSets.size()) - threshold
LeftTillBlockSz(qset) ==
    (1 + Len(qset.validators) + Len(qset.innerSets)) - qset.threshold

\* the loop of lines 440-457.  Returns [blocked, left, res].
RECURSIVE ClosestValidators(_, _, _, _, _)
ClosestValidators(v, k, nodes_, leftTillBlock, res) ==
    IF k > Len(v) THEN [blocked |-> FALSE, left |-> leftTillBlock, res |-> res]
    ELSE IF v[k] \notin nodes_
         THEN IF leftTillBlock - 1 = 0
              THEN [blocked |-> TRUE, left |-> 0, res |-> <<>>]
              ELSE ClosestValidators(v, k + 1, nodes_, leftTillBlock - 1, res)
         ELSE ClosestValidators(v, k + 1, nodes_, leftTillBlock,
                                Append(res, v[k]))

MultisetEmplace_Unordered(resInternals, v) == Append(resInternals, v)

\* std::multiset<std::vector<NodeID>, orderBySize>::emplace: v goes after
\* the last element that is not longer than v
MultisetEmplace(resInternals, v) ==
    LET p == Cardinality({k \in 1..Len(resInternals) :
                            Len(resInternals[k]) <= Len(v)})
    IN SubSeq(resInternals, 1, p) \o <<v>>
       \o SubSeq(resInternals, p + 1, Len(resInternals))

Resize_OneShort(res, n) == SubSeq(res, 1, n - 1)

\* res.resize(n) for n < res.size()
Resize(res, n) == SubSeq(res, 1, n)

\* the loop of lines 496-502
RECURSIVE UseSubsets(_, _, _, _)
UseSubsets(resInternals, k, leftTillBlock, res) ==
    IF leftTillBlock /= 0 /\ k <= Len(resInternals)
    THEN UseSubsets(resInternals, k + 1, leftTillBlock - 1,
                    res \o resInternals[k])
    ELSE res

RECURSIVE findClosestVBlocking(_, _), ClosestInnerSets(_, _, _, _, _)
findClosestVBlocking(qset, nodes_) ==
    LET rv == ClosestValidators(qset.validators, 1, nodes_,
                                LeftTillBlockSz(qset), <<>>)
    IN IF rv.blocked THEN <<>>
       ELSE LET ri == ClosestInnerSets(qset.innerSets, 1, nodes_, rv.left, <<>>)
            IN IF ri.blocked THEN <<>>
               ELSE LET res == IF ULess(ri.left, Len(rv.res))
                               THEN Resize(rv.res, ri.left)
                               ELSE rv.res
                    IN UseSubsets(ri.resInternals, 1, ri.left - Len(res), res)
\* the loop of lines 470-486.  Returns [blocked, left, resInternals].
ClosestInnerSets(i, k, nodes_, leftTillBlock, resInternals) ==
    IF k > Len(i)
    THEN [blocked |-> FALSE, left |-> leftTillBlock,
          resInternals |-> resInternals]
    ELSE LET v == findClosestVBlocking(i[k], nodes_)
         IN IF Len(v) = 0
            THEN IF leftTillBlock - 1 = 0
                 THEN [blocked |-> TRUE, left |-> 0, resInternals |-> <<>>]
                 ELSE ClosestInnerSets(i, k + 1, nodes_, leftTillBlock - 1,
                                       resInternals)
            ELSE ClosestInnerSets(i, k + 1, nodes_, leftTillBlock,
                                  MultisetEmplace(resInternals, v))

(***************************************************************************)
(* LocalNode::forAllNodes: the set of nodes proc is run over.              *)
(***************************************************************************)
RECURSIVE forAllNodes(_)
forAllNodes(qset) ==
    Range(qset.validators)
    \cup UNION {forAllNodes(qset.innerSets[k]) : k \in 1..Len(qset.innerSets)}

(***************************************************************************)
(* Well-formed input quorum sets: every tree with exactly k entries whose  *)
(* thresholds are in range and whose validators are pairwise distinct      *)
(* nodes of avail, in any order.                                           *)
(***************************************************************************)
Orderings(S) ==
    {s \in SeqsOfLen(S, Cardinality(S)) : Range(s) = S}

RECURSIVE WFExact(_, _), WFInnerExact(_, _)
WFExact(avail, k) ==
    UNION {
        UNION {
            { QS(t, v, i) : t \in 1..(Cardinality(V) + Len(i)),
                            v \in Orderings(V) }
            : i \in WFInnerExact(avail \ V, k - Cardinality(V))
        }
        : V \in {W \in SUBSET avail : Cardinality(W) <= k}
    }
WFInnerExact(avail, b) ==
    IF b = 0 THEN {<<>>}
    ELSE UNION {
            UNION {
                {<<t>> \o s : s \in WFInnerExact(avail \ forAllNodes(t), b - 1 - e)}
                : t \in WFExact(avail, e)
            }
            : e \in 1..(b - 1)
         }

WFQSets == UNION {WFExact(Nodes, k) : k \in 1..MaxWFEntries}

(***************************************************************************)
(* Statement maps.  An SCPStatement is opaque to LocalNode: all it does    *)
(* with one is hand it to the caller's qfun and filter, so a statement is  *)
(* kept as the pair of their answers.  std::map iterates in key order.     *)
(***************************************************************************)
Stmt(q, b) == [quorumSet |-> q, relevant |-> b]
qfun(statement) == statement.quorumSet
filter(statement) == statement.relevant

\* quorum sets peers announce: one or two validators, threshold in range
PeerQSets ==
    {QS(1, <<a>>, <<>>) : a \in Nodes}
    \cup UNION {{QS(t, <<a, b>>, <<>>) : t \in 1..2}
                : <<a, b>> \in {p \in Nodes \X Nodes : p[1] < p[2]}}

\* a statement the filter rejects is never handed to qfun
Statements ==
    {Stmt(q, TRUE) : q \in PeerQSets} \cup {Stmt(QS(1, <<1>>, <<>>), FALSE)}

QuorumMaps == UNION {[K -> Statements] : K \in SUBSET Nodes}

BlockingMaps ==
    UNION {[K -> {Stmt(QS(1, <<1>>, <<>>), b) : b \in BOOLEAN}]
           : K \in SUBSET Nodes}

\* for (auto const& it : map) if (filter(it.second.statement)) push_back(it.first)
FilteredKeys(map_) ==
    LET Relevant(n) == filter(map_[n])
    IN SelectSeq(SetToSeq(DOMAIN map_), Relevant)

(***************************************************************************)
(* The LocalNode object.                                                   *)
(***************************************************************************)
NoCall ==
    /\ qSet = QS(0, <<>>, <<>>)
    /\ nodeID = 0
    /\ nodeSet = <<>>
    /\ nodes = {}
    /\ map = <<>>
    /\ pNodes = <<>>
    /\ count = 0
    /\ rounds = 0
    /\ ret = "none"

\* LocalNode::LocalNode
LocalNode(self, isValidator, rawQSet) ==
    /\ mNodeID = self
    /\ mIsValidator = isValidator
    /\ mQSet = adjustQSet(self, rawQSet)
    /\ mQSetHash = sha256(adjustQSet(self, rawQSet))

\* LocalNode::getQuorumSet
getQuorumSet == mQSet

nodeVars == <<mNodeID, mIsValidator, mQSet, mQSetHash>>
callVars == <<qSet, nodeID, nodeSet, nodes, map, pNodes, count, rounds, ret>>

(***************************************************************************)
(* Spec: a LocalNode is constructed from a configured quorum set and then  *)
(* reconfigured any number of times.                                       *)
(***************************************************************************)
Init ==
    /\ \E self \in Nodes, isValidator \in BOOLEAN, rawQSet \in RawQSets :
            LocalNode(self, isValidator, rawQSet)
    /\ pc = "constructed"
    /\ NoCall

\* LocalNode::updateQuorumSet
updateQuorumSet(q) ==
    /\ mQSetHash' = sha256(q)
    /\ mQSet' = q
    /\ pc' = "updated"
    /\ UNCHANGED <<mNodeID, mIsValidator>>
    /\ UNCHANGED callVars

UpdateQuorumSet == \E q \in ConfigQSets : updateQuorumSet(q)

Next == UpdateQuorumSet

Spec == Init /\ [][Next]_vars

\* the node every call of the following specifications is made on, but for
\* SpecAdjust and SpecSane, which read its fields
SomeNode == LocalNode(1, TRUE, buildSingletonQSet(1))

(***************************************************************************)
(* SpecAdjust: adjustQSet applied to a quorum set, and to its own output.  *)
(* adjustQSet rewrites its argument in place.                              *)
(***************************************************************************)
InitAdjust ==
    /\ \E self \in Nodes : LocalNode(self, TRUE, buildSingletonQSet(self))
    /\ pc = "call"
    /\ qSet \in RawQSets
    /\ nodeID = 0 /\ nodeSet = <<>> /\ nodes = {} /\ map = <<>>
    /\ pNodes = <<>> /\ count = 0 /\ rounds = 0 /\ ret = "none"

AdjustQSet ==
    /\ pc \in {"call", "adjusted"}
    /\ qSet' = adjustQSet(mNodeID, qSet)
    /\ pc' = IF pc = "call" THEN "adjusted" ELSE "readjusted"
    /\ UNCHANGED nodeVars
    /\ UNCHANGED <<nodeID, nodeSet, nodes, map, pNodes, count, rounds, ret>>

NextAdjust == AdjustQSet

SpecAdjust == InitAdjust /\ [][NextAdjust]_vars

(***************************************************************************)
(* SpecSane: one call of isQuorumSetSane.                                  *)
(***************************************************************************)
InitSane ==
    /\ \E self \in Nodes, isValidator \in BOOLEAN :
            LocalNode(self, isValidator, buildSingletonQSet(self))
    /\ pc = "call"
    /\ qSet \in RawQSets
    /\ nodeID \in Nodes
    /\ nodeSet = <<>> /\ nodes = {} /\ map = <<>>
    /\ pNodes = <<>> /\ count = 0 /\ rounds = 0 /\ ret = "none"

IsQuorumSetSane ==
    /\ pc = "call"
    /\ ret' = isQuorumSetSane(mNodeID, mIsValidator, nodeID, qSet)
    /\ pc' = "done"
    /\ UNCHANGED nodeVars
    /\ UNCHANGED <<qSet, nodeID, nodeSet, nodes, map, pNodes, count, rounds>>

NextSane == IsQuorumSetSane

SpecSane == InitSane /\ [][NextSane]_vars

(***************************************************************************)
(* SpecSlice: one call of isQuorumSlice(qSet, nodeSet).                    *)
(***************************************************************************)
InitSlice ==
    /\ SomeNode
    /\ pc = "call"
    /\ qSet \in RawQSets
    /\ nodeSet \in NodeVectors
    /\ nodeID = 0 /\ nodes = {} /\ map = <<>>
    /\ pNodes = <<>> /\ count = 0 /\ rounds = 0 /\ ret = "none"

IsQuorumSlice ==
    /\ pc = "call"
    /\ ret' = isQuorumSlice(qSet, nodeSet)
    /\ pc' = "done"
    /\ UNCHANGED nodeVars
    /\ UNCHANGED <<qSet, nodeID, nodeSet, nodes, map, pNodes, count, rounds>>

NextSlice == IsQuorumSlice

SpecSlice == InitSlice /\ [][NextSlice]_vars

(***************************************************************************)
(* SpecBlocking: one call of isVBlocking(qSet, map, filter) or of          *)
(* findClosestVBlocking(qSet, map, filter); each reduces the map to the    *)
(* nodes whose statement passes the filter and calls the node-set form.    *)
(***************************************************************************)
InitBlocking ==
    /\ SomeNode
    /\ pc = "call"
    /\ qSet \in WFQSets \cup ConfigQSets
    /\ map \in BlockingMaps
    /\ nodeID = 0 /\ nodeSet = <<>> /\ nodes = {}
    /\ pNodes = <<>> /\ count = 0 /\ rounds = 0 /\ ret = "none"

\* isVBlocking(qSet, map, filter), lines 363-378
IsVBlocking ==
    /\ pc = "call"
    /\ nodeSet' = FilteredKeys(map)
    /\ ret' = isVBlocking(qSet, FilteredKeys(map))
    /\ pc' = "isVBlocking"
    /\ UNCHANGED nodeVars
    /\ UNCHANGED <<qSet, nodeID, nodes, map, pNodes, count, rounds>>

\* findClosestVBlocking(qset, map, filter), lines 414-428
FindClosestVBlocking ==
    /\ pc = "call"
    /\ nodes' = Range(FilteredKeys(map))
    /\ ret' = findClosestVBlocking(qSet, Range(FilteredKeys(map)))
    /\ pc' = "findClosestVBlocking"
    /\ UNCHANGED nodeVars
    /\ UNCHANGED <<qSet, nodeID, nodeSet, map, pNodes, count, rounds>>

NextBlocking == IsVBlocking \/ FindClosestVBlocking

SpecBlocking == InitBlocking /\ [][NextBlocking]_vars

(***************************************************************************)
(* SpecQuorum: one call of isQuorum(qSet, map, qfun, filter), one action   *)
(* per stretch of its code: the filter pass, one body of the do-while,     *)
(* the final return.                                                       *)
(***************************************************************************)
InitQuorum ==
    /\ SomeNode
    /\ pc = "call"
    /\ qSet \in PeerQSets
    /\ map \in QuorumMaps
    /\ nodeID = 0 /\ nodeSet = <<>> /\ nodes = {}
    /\ pNodes = <<>> /\ count = 0 /\ rounds = 0 /\ ret = "none"

\* lines 386-395
IsQuorumEnter ==
    /\ pc = "call"
    /\ pNodes' = FilteredKeys(map)
    /\ count' = 0
    /\ pc' = "loop"
    /\ UNCHANGED nodeVars
    /\ UNCHANGED <<qSet, nodeID, nodeSet, nodes, map, rounds, ret>>

\* copy_if(pNodes, quorumFilter), lines 399-408
FilterRound(map_, pNodes_) ==
    LET quorumFilter(n) == isQuorumSlice(qfun(map_[n]), pNodes_)
    IN SelectSeq(pNodes_, quorumFilter)

\* the do-while body run once, without the loop around it
IsQuorumRound_Once ==
    /\ pc = "loop"
    /\ count' = Len(pNodes)
    /\ pNodes' = FilterRound(map, pNodes)
    /\ rounds' = rounds + 1
    /\ pc' = "return"
    /\ UNCHANGED nodeVars
    /\ UNCHANGED <<qSet, nodeID, nodeSet, nodes, map, ret>>

\* the do-while with the test "while (!pNodes.empty())"
IsQuorumRound_UntilEmpty ==
    /\ pc = "loop"
    /\ count' = Len(pNodes)
    /\ pNodes' = FilterRound(map, pNodes)
    /\ rounds' = rounds + 1
    /\ pc' = IF Len(pNodes') /= 0 THEN "loop" ELSE "return"
    /\ UNCHANGED nodeVars
    /\ UNCHANGED <<qSet, nodeID, nodeSet, nodes, map, ret>>

\* one body of the do-while and its test, lines 396-409
IsQuorumRound ==
    /\ pc = "loop"
    /\ count' = Len(pNodes)
    /\ pNodes' = FilterRound(map, pNodes)
    /\ rounds' = rounds + 1
    /\ pc' = IF count' /= Len(pNodes') THEN "loop" ELSE "return"
    /\ UNCHANGED nodeVars
    /\ UNCHANGED <<qSet, nodeID, nodeSet, nodes, map, ret>>

\* line 411
IsQuorumReturn ==
    /\ pc = "return"
    /\ ret' = isQuorumSlice(qSet, pNodes)
    /\ pc' = "done"
    /\ UNCHANGED nodeVars
    /\ UNCHANGED <<qSet, nodeID, nodeSet, nodes, map, pNodes, count, rounds>>

NextQuorum == IsQuorumEnter \/ IsQuorumRound \/ IsQuorumReturn

SpecQuorum == InitQuorum /\ [][NextQuorum]_vars

(***************************************************************************)
(* FairSpecRounds: the same call, for the properties of its loop.  The     *)
(* loop never reads qSet, so one caller's quorum set stands for all.       *)
(* isQuorum runs to completion once called: no step of it waits on         *)
(* anything, hence the weak fairness.                                      *)
(***************************************************************************)
InitRounds ==
    /\ SomeNode
    /\ pc = "call"
    /\ qSet = buildSingletonQSet(1)
    /\ map \in QuorumMaps
    /\ nodeID = 0 /\ nodeSet = <<>> /\ nodes = {}
    /\ pNodes = <<>> /\ count = 0 /\ rounds = 0 /\ ret = "none"

FairSpecRounds == InitRounds /\ [][NextQuorum]_vars /\ WF_vars(NextQuorum)

(***************************************************************************)
(* Vocabulary of the properties, stated without the code's loops.          *)
(***************************************************************************)
\* every threshold of the tree is in [1, |validators| + |innerSets|]
RECURSIVE AllThresholdsInRange(_)
AllThresholdsInRange(q) ==
    /\ 1 <= q.threshold
    /\ q.threshold <= Len(q.validators) + Len(q.innerSets)
    /\ \A k \in 1..Len(q.innerSets) : AllThresholdsInRange(q.innerSets[k])

\* every threshold of the tree is at least 1
RECURSIVE AllThresholdsPositive(_)
AllThresholdsPositive(q) ==
    /\ 1 <= q.threshold
    /\ \A k \in 1..Len(q.innerSets) : AllThresholdsPositive(q.innerSets[k])

\* the validators of the tree, one element per position
RECURSIVE ConcatAll(_)
ConcatAll(ss) == IF ss = <<>> THEN <<>> ELSE Head(ss) \o ConcatAll(Tail(ss))
RECURSIVE ValidatorPositions(_)
ValidatorPositions(q) ==
    q.validators
    \o ConcatAll([k \in 1..Len(q.innerSets) |-> ValidatorPositions(q.innerSets[k])])

NoRepetition(s) == \A a, b \in 1..Len(s) : a /= b => s[a] /= s[b]

WellFormed(q) ==
    AllThresholdsInRange(q) /\ NoRepetition(ValidatorPositions(q))

\* at least `threshold` of the direct entries are satisfied by the node set S
RECURSIVE Satisfied(_, _)
Satisfied(q, S) ==
    Cardinality({k \in 1..Len(q.validators) : q.validators[k] \in S})
    + Cardinality({k \in 1..Len(q.innerSets) : Satisfied(q.innerSets[k], S)})
    >= q.threshold

\* the nodes of the map whose statement passes the filter
RelevantNodes == {n \in DOMAIN map : filter(map[n])}

\* the validators of qSet that are not candidates
Outside == forAllNodes(qSet) \ nodes

(***************************************************************************)
(* C1 (v-blocking duality): for a well-formed quorum set and a node set S, *)
(* isVBlocking returns true iff no node set T disjoint from S is a quorum  *)
(* slice of it.                                                            *)
(***************************************************************************)
C1_VBlockingDuality ==
    (pc = "isVBlocking" /\ WellFormed(qSet)) =>
        (ret <=> ~ \E T \in SUBSET Nodes :
                        /\ T \cap Range(nodeSet) = {}
                        /\ isQuorumSlice(qSet, SetToSeq(T)))

C1_Witness ==
    /\ pc = "isVBlocking"
    /\ WellFormed(qSet)
    /\ Len(qSet.innerSets) >= 1
    /\ ret = TRUE
    /\ Range(nodeSet) /= {}
    /\ ~ (forAllNodes(qSet) \subseteq Range(nodeSet))

(***************************************************************************)
(* C2 (isQuorum): isQuorum returns true iff some non-empty set G of nodes  *)
(* whose statements pass the filter is a quorum slice of the quorum set of *)
(* each of its members and of the caller's quorum set.                     *)
(***************************************************************************)
C2_IsQuorum ==
    pc = "done" =>
        (ret <=> \E G \in (SUBSET RelevantNodes) \ {{}} :
                    /\ \A n \in G : isQuorumSlice(qfun(map[n]), SetToSeq(G))
                    /\ isQuorumSlice(qSet, SetToSeq(G)))

C2_Witness ==
    /\ pc = "done"
    /\ ret = TRUE
    /\ rounds >= 2
    /\ Len(pNodes) < Cardinality(RelevantNodes)

(***************************************************************************)
(* C3 (quorum slice): when every threshold is at least 1, isQuorumSlice    *)
(* returns true iff at least `threshold` direct entries are satisfied, a   *)
(* validator by membership in the node set, an inner set recursively; for  *)
(* {2, [A,B,C]} it is true of {A,B} and false of {A} and of {}.            *)
(***************************************************************************)
C3_QuorumSlice ==
    /\ (pc = "done" /\ AllThresholdsPositive(qSet)) =>
            (ret <=> Satisfied(qSet, Range(nodeSet)))
    /\ (pc = "done" /\ qSet = QS(2, <<1, 2, 3>>, <<>>)) =>
            /\ nodeSet = <<1, 2>> => ret = TRUE
            /\ nodeSet \in {<<1>>, <<>>} => ret = FALSE

C3_Witness ==
    /\ pc = "done"
    /\ AllThresholdsPositive(qSet)
    /\ Len(qSet.innerSets) >= 1
    /\ Len(nodeSet) = 2 /\ nodeSet[1] = nodeSet[2]
    /\ ret = TRUE

(***************************************************************************)
(* C4 (sanity): isQuorumSetSane returns true iff every threshold is in     *)
(* range, no NodeID is a validator at two positions, and nodeID is among   *)
(* the validators or the local node is a non-validator and nodeID is its   *)
(* own ID.                                                                 *)
(***************************************************************************)
C4_IsQuorumSetSane ==
    pc = "done" =>
        (ret <=> /\ AllThresholdsInRange(qSet)
                 /\ NoRepetition(ValidatorPositions(qSet))
                 /\ \/ nodeID \in Range(ValidatorPositions(qSet))
                    \/ (~mIsValidator /\ nodeID = mNodeID))

C4_Witness ==
    /\ pc = "done"
    /\ ret = TRUE
    /\ ~mIsValidator
    /\ nodeID = mNodeID
    /\ nodeID \notin Range(ValidatorPositions(qSet))
    /\ Len(qSet.innerSets) >= 1

(***************************************************************************)
(* C5 (canonical form kept): in every state of a LocalNode, the quorum set *)
(* getQuorumSet returns has [self] as its top-level validators, a          *)
(* threshold equal to its number of top-level entries, and self nowhere    *)
(* deeper.                                                                 *)
(***************************************************************************)
C5_AlwaysCanonical ==
    /\ getQuorumSet.validators = <<mNodeID>>
    /\ getQuorumSet.threshold
            = Len(getQuorumSet.validators) + Len(getQuorumSet.innerSets)
    /\ \A k \in 1..Len(getQuorumSet.innerSets) :
            mNodeID \notin forAllNodes(getQuorumSet.innerSets[k])

(***************************************************************************)
(* C6 (self decides): the output of adjustQSet is {1, [self]} or           *)
(* {2, [self], [one inner set with non-zero threshold and without self]},  *)
(* and every node set that is a quorum slice of it contains self.          *)
(***************************************************************************)
C6_SelfDecides ==
    pc \in {"adjusted", "readjusted"} =>
        /\ \/ qSet = QS(1, <<mNodeID>>, <<>>)
           \/ /\ qSet.threshold = 2
              /\ qSet.validators = <<mNodeID>>
              /\ Len(qSet.innerSets) = 1
              /\ qSet.innerSets[1].threshold /= 0
              /\ mNodeID \notin forAllNodes(qSet.innerSets[1])
        /\ \A S \in SUBSET Nodes :
                isQuorumSlice(qSet, SetToSeq(S)) => mNodeID \in S

C6_Witness ==
    /\ pc = "adjusted"
    /\ qSet.threshold = 2
    /\ \E S \in SUBSET Nodes : isQuorumSlice(qSet, SetToSeq(S))

(***************************************************************************)
(* C7 (idempotence): adjustQSet applied to its own output leaves it        *)
(* unchanged.                                                              *)
(***************************************************************************)
C7_Idempotent == [][pc = "adjusted" => qSet' = qSet]_vars

C7_Witness ==
    /\ pc = "readjusted"
    /\ qSet.threshold = 2
    /\ Len(qSet.innerSets[1].innerSets) >= 1

(***************************************************************************)
(* C8 as stated: for a well-formed quorum set, the result R of             *)
(* findClosestVBlocking holds candidates only and, when it is not empty,   *)
(* is v-blocking by itself.                                                *)
(***************************************************************************)
C8_ResultAloneBlocks ==
    (pc = "findClosestVBlocking" /\ WellFormed(qSet)) =>
        /\ Range(ret) \subseteq nodes
        /\ ret /= <<>> => isVBlocking(qSet, ret)

(***************************************************************************)
(* C8 as amended: R holds candidates only and, when it is not empty, R     *)
(* together with the validators of the tree that are not candidates is     *)
(* v-blocking.                                                             *)
(***************************************************************************)
C8_ResultBlocksWithOutside ==
    (pc = "findClosestVBlocking" /\ WellFormed(qSet)) =>
        /\ Range(ret) \subseteq nodes
        /\ ret /= <<>> => isVBlocking(qSet, ret \o SetToSeq(Outside))

C8_Witness ==
    /\ pc = "findClosestVBlocking"
    /\ WellFormed(qSet)
    /\ ret /= <<>>
    /\ ~isVBlocking(qSet, ret)

(***************************************************************************)
(* C9 as stated: isQuorum never runs more filtering rounds than the map    *)
(* has entries.                                                            *)
(***************************************************************************)
C9_RoundsAtMostMapSize == rounds <= Cardinality(DOMAIN map)

(***************************************************************************)
(* C9 as amended: the loop of isQuorum terminates, it runs at most one     *)
(* round more than there are entries whose statement passes the filter     *)
(* (so at most |map| + 1), a round never grows the candidate set and a     *)
(* round after which the loop goes on shrinks it.                          *)
(***************************************************************************)
C9_RoundsAtMostMapSizePlusOne ==
    /\ [](/\ rounds <= Cardinality(RelevantNodes) + 1
          /\ rounds <= Cardinality(DOMAIN map) + 1)
    /\ [][pc = "loop" =>
            /\ Len(pNodes') <= Len(pNodes)
            /\ pc' = "loop" => Len(pNodes') < Len(pNodes)]_vars
    /\ <>(pc = "done")

C9_Witness ==
    /\ pc = "done"
    /\ Cardinality(DOMAIN map) >= 2
    /\ rounds = Cardinality(DOMAIN map) + 1

(***************************************************************************)
(* C10 (closest v-blocking set): for a well-formed quorum set, with N the  *)
(* validators that are not candidates and R the result: R with N is        *)
(* v-blocking; R is empty exactly when N is v-blocking; no smaller set of  *)
(* candidates is v-blocking with N; for a flat set of n validators, all    *)
(* candidates, R has (1 + n) - threshold elements.                         *)
(***************************************************************************)
C10_ClosestIsMinimal ==
    (pc = "findClosestVBlocking" /\ WellFormed(qSet)) =>
        /\ isVBlocking(qSet, SetToSeq(Range(ret) \cup Outside))
        /\ ret = <<>> <=> isVBlocking(qSet, SetToSeq(Outside))
        /\ \A W \in SUBSET nodes :
                Cardinality(W) < Cardinality(Range(ret))
                    => ~isVBlocking(qSet, SetToSeq(W \cup Outside))
        /\ (qSet.innerSets = <<>> /\ Outside = {})
                => Len(ret) = (1 + Len(qSet.validators)) - qSet.threshold

C10_Witness ==
    /\ pc = "findClosestVBlocking"
    /\ WellFormed(qSet)
    /\ Len(qSet.innerSets) >= 2
    /\ Outside /= {}
    /\ Len(ret) >= 2

====
